---- MODULE Spec2Model ----
(***************************************************************************)
(* Memote note store: NotesProvider (src/context/NotesContext.js) over the *)
(* localStorage helpers of src/utils/storage.js.                           *)
(*                                                                         *)
(* The provider holds the note list in React state, loads it from          *)
(* localStorage when it mounts and writes the whole list back in an effect *)
(* after every state change.  localStorage text is modelled as a tagged    *)
(* document; JSON.stringify / JSON.parse are modelled as an encoding of    *)
(* each note object into its ordered list of key/value pairs and back.     *)
(***************************************************************************)
EXTENDS Integers, Sequences, FiniteSets, TLC

\* ---------------------------------------------------------------- bounds
MaxNotes    == 2   \* longest note list explored
MaxTime     == 1   \* largest value the clock reaches
MaxIds      == 3   \* ids in use: 1 is preloaded, the generator issues the rest
MaxFailures == 1   \* localStorage writes that fail in a row

\* JavaScript null (reminder: number | null); timestamps are >= 0
null == -1

\* ---------------------------------------------------------------- values
Ids       == 1..MaxIds
Times     == 0..MaxTime

\* property order of a note object literal (createNote)
KeyOrder == <<"id", "title", "content", "dateCreated", "lastEdited",
              "reminder", "tags">>

\* the object {} : a partial note with no field
EmptyPatch == [k \in {} |-> 0]

\* what the editor hands to createNote, or to updateNote as a partial note
\* (NoteEditor.handleSave: title, content, reminder, tags)
NoteInputs ==
    {[title |-> "Groceries", content |-> "<p>eggs</p>", reminder |-> null,
      tags |-> <<"Important">>],
     [title |-> " ", content |-> "<p>eggs</p>", reminder |-> 1,
      tags |-> <<>>]}

\* partial notes with exactly one field
SinglePatches ==
    {"id" :> v : v \in Ids} \cup {"dateCreated" :> v : v \in Times}
    \cup {"lastEdited" :> 0, "tags" :> <<>>}

\* the partial notes updateNote is called with
Patches == {EmptyPatch} \cup SinglePatches \cup NoteInputs

\* ------------------------------------------------------- localStorage text
\* what localStorage.getItem(NOTES_STORAGE_KEY) returns
NoItem      == [kind |-> "absent",  items |-> <<>>]   \* null: key not set
EmptyText   == [kind |-> "empty",   items |-> <<>>]   \* ""
GarbageText == [kind |-> "garbage", items |-> <<>>]   \* "{oops": not JSON
ObjectText  == [kind |-> "object",  items |-> <<>>]   \* "{}": JSON, no array

\* JSON.stringify of one object: its own properties in property order
EncodeObject(n) ==
    LET ks == SelectSeq(KeyOrder, LAMBDA k : k \in DOMAIN n)
    IN  [i \in 1..Len(ks) |-> <<ks[i], n[ks[i]]>>]

\* JSON.parse of one object
DecodeObject(pairs) ==
    [k \in {pairs[i][1] : i \in 1..Len(pairs)} |->
        pairs[CHOOSE i \in 1..Len(pairs) : pairs[i][1] = k][2]]

\* JSON.stringify(notesArray)
JSONstringify(notesArray) ==
    [kind  |-> "array",
     items |-> [i \in 1..Len(notesArray) |-> EncodeObject(notesArray[i])]]

\* JSON.parse(stored): throws on text that is not JSON
JSONparse(stored) ==
    [threw   |-> stored.kind \in {"empty", "garbage"},
     isArray |-> stored.kind = "array",
     value   |-> [i \in 1..Len(stored.items) |-> DecodeObject(stored.items[i])]]

\* truthiness of getItem's result: null and "" are falsy
Truthy(stored) == stored.kind \notin {"absent", "empty"}

\* slip: the Array.isArray ternary with its branches swapped
loadNotesFromStorage_inverted(stored) ==
    IF Truthy(stored)
    THEN LET parsed == JSONparse(stored)
         IN  IF parsed.threw THEN <<>>
             ELSE IF parsed.isArray THEN <<>> ELSE parsed.value
    ELSE <<>>

loadNotesFromStorage(stored) ==
    IF Truthy(stored)
    THEN LET parsed == JSONparse(stored)
         IN  IF parsed.threw THEN <<>>
             ELSE IF parsed.isArray THEN parsed.value ELSE <<>>
    ELSE <<>>

\* slip: an early return on an empty list, so the last delete is not written
saveNotesToStorage_skipEmpty(stored, notesArray, throws) ==
    IF throws \/ Len(notesArray) = 0 THEN stored ELSE JSONstringify(notesArray)

\* slip: setItem(key, notesArray) without JSON.stringify stores the array's
\* toString(): "" for [], "[object Object]" otherwise
saveNotesToStorage_unserialized(stored, notesArray, throws) ==
    IF throws THEN stored
    ELSE IF Len(notesArray) = 0 THEN EmptyText ELSE GarbageText

\* slip: the catch block removes the key
saveNotesToStorage_clearOnError(stored, notesArray, throws) ==
    IF throws THEN NoItem ELSE JSONstringify(notesArray)

\* the text under the key after saveNotesToStorage(notesArray); throws is
\* the environment's choice: JSON.stringify or setItem threw (quota)
saveNotesToStorage(stored, notesArray, throws) ==
    IF throws THEN stored ELSE JSONstringify(notesArray)

\* ------------------------------------------------------------- NotesProvider
\* slip: the new note appended instead of prepended
createNote_append(prev, id, title, content, reminder, tags, t1, t2) ==
    LET newNote == [id |-> id, title |-> title, content |-> content,
                    dateCreated |-> t1, lastEdited |-> t2,
                    reminder |-> reminder, tags |-> tags]
    IN  prev \o <<newNote>>

createNote(prev, id, title, content, reminder, tags, t1, t2) ==
    LET newNote == [id |-> id, title |-> title, content |-> content,
                    dateCreated |-> t1, lastEdited |-> t2,
                    reminder |-> reminder, tags |-> tags]
    IN  <<newNote>> \o prev

\* slip: the id test dropped from the map callback
updateNote_all(prev, id, data, ts) ==
    [i \in 1..Len(prev) |-> ("lastEdited" :> ts[i]) @@ data @@ prev[i]]

\* slip: lastEdited left out of the merged object
updateNote_noStamp(prev, id, data, ts) ==
    [i \in 1..Len(prev) |->
        IF prev[i].id = id THEN data @@ prev[i] ELSE prev[i]]

\* slip: the spreads in the wrong order, {...data, ...n}
updateNote_dataFirst(prev, id, data, ts) ==
    [i \in 1..Len(prev) |->
        IF prev[i].id = id
        THEN ("lastEdited" :> ts[i]) @@ prev[i] @@ data
        ELSE prev[i]]

\* ts[i] is what Date.now() returns when the map callback reaches prev[i]
updateNote(prev, id, data, ts) ==
    [i \in 1..Len(prev) |->
        IF prev[i].id = id
        THEN ("lastEdited" :> ts[i]) @@ data @@ prev[i]
        ELSE prev[i]]

\* slip: the filter keeps the note it should drop
deleteNote_keep(prev, id) == SelectSeq(prev, LAMBDA n : n.id = id)

deleteNote(prev, id) == SelectSeq(prev, LAMBDA n : n.id # id)

\* ------------------------------------------------------------------- state
VARIABLES
    pc,        \* "unmounted" before NotesProvider's first render, then "ready"
    notes,     \* the React state `notes`
    storage,   \* text under NOTES_STORAGE_KEY in localStorage
    now,       \* last value the wall clock showed
    nextId,    \* next id uuidv4() returns
    lastOp,    \* the last operation, its arguments, and whether its save threw
    failures,  \* number of saves that threw since the last one that did not
    selectedDate,   \* NoteList: the Date picked in the DateSelector
    searchQuery,    \* NoteList: the text typed in the Header
    filteredNotes,  \* NoteList: what filterNotes last produced
    route,          \* the screen shown and, in the editor, the :id parameter
    noteTitle,      \* NoteEditor: the title field
    noteContent,    \* NoteEditor: the rich-text field
    noteReminder,   \* NoteEditor: the reminder picked, null for none
    noteTags,       \* NoteEditor: the tags ticked
    heap,           \* arrays a caller of createNote can reach, by reference
    callerTags      \* the reference such a caller passes as `tags`

\* the state of NotesProvider and its collaborators
store == <<pc, notes, storage, now, nextId, lastOp, failures>>

\* the state of the NoteList screen
listView == <<selectedDate, searchQuery, filteredNotes>>

\* the state of the NoteEditor screen
editorView == <<route, noteTitle, noteContent, noteReminder, noteTags>>

\* the state of a caller that keeps its tags array
caller == <<heap, callerTags>>

screens == <<listView, editorView, caller>>

vars == <<store, screens>>

\* the NoteList screen is not mounted
ListIdle ==
    /\ selectedDate = 0
    /\ searchQuery = <<>>
    /\ filteredNotes = <<>>

\* no route is shown, so NoteEditor is not mounted
EditorIdle ==
    /\ route = [screen |-> "none", id |-> 0]
    /\ noteTitle = <<>>
    /\ noteContent = <<>>
    /\ noteReminder = null
    /\ noteTags = <<>>

\* no array is shared with a caller
CallerIdle ==
    /\ heap = <<>>
    /\ callerTags = 0

\* a note written by an earlier session
OldNote == [id |-> 1, title |-> "Groceries", content |-> "<p>eggs</p>",
            dateCreated |-> 0, lastEdited |-> 0, reminder |-> null,
            tags |-> <<"Important">>]

InitialStorage ==
    {NoItem, EmptyText, GarbageText, ObjectText,
     JSONstringify(<<>>), JSONstringify(<<OldNote>>)}

Op(op, id, data, threw) == [op |-> op, id |-> id, data |-> data, threw |-> threw]

Init ==
    /\ pc = "unmounted"
    /\ notes = <<>>
    /\ storage \in InitialStorage
    /\ now = 0
    /\ nextId = 2
    /\ lastOp = Op("none", 0, EmptyPatch, FALSE)
    /\ failures = 0
    /\ ListIdle
    /\ EditorIdle
    /\ CallerIdle

\* slip: the effect skipped when the new list has the contents of the old one
Save_ifChanged(newNotes, throws) ==
    /\ throws => failures < MaxFailures
    /\ storage' = IF newNotes = notes THEN storage
                  ELSE saveNotesToStorage(storage, newNotes, throws)
    /\ failures' = IF newNotes = notes THEN failures
                   ELSE IF throws THEN failures + 1 ELSE 0

\* the effect useEffect(() => saveNotesToStorage(notes), [notes]) after the
\* state became newNotes; the write may throw, MaxFailures times in a row
Save(newNotes, throws) ==
    /\ throws => failures < MaxFailures
    /\ storage' = saveNotesToStorage(storage, newNotes, throws)
    /\ failures' = IF throws THEN failures + 1 ELSE 0

\* first render: useState(() => loadNotesFromStorage()), then the effect
Mount ==
    /\ pc = "unmounted"
    /\ pc' = "ready"
    /\ notes' = loadNotesFromStorage(storage)
    /\ \E throws \in BOOLEAN :
         /\ Save(notes', throws)
         /\ lastOp' = Op("mount", 0, EmptyPatch, throws)
    /\ UNCHANGED <<now, nextId>>
    /\ UNCHANGED screens

Create ==
    /\ pc = "ready"
    /\ Len(notes) < MaxNotes
    /\ nextId <= MaxIds
    /\ \E in \in NoteInputs, t1 \in now..MaxTime :
         \E t2 \in t1..MaxTime, throws \in BOOLEAN :
           /\ notes' = createNote(notes, nextId, in.title, in.content,
                                  in.reminder, in.tags, t1, t2)
           /\ now' = t2
           /\ Save(notes', throws)
           /\ lastOp' = Op("create", nextId, in, throws)
    /\ nextId' = nextId + 1
    /\ pc' = pc
    /\ UNCHANGED screens

\* the values Date.now() returns during one prev.map: non-decreasing from
\* the clock, read only at the notes whose id matches
Readings(prev, id) ==
    {ts \in [1..Len(prev) -> now..MaxTime] :
        \A i \in 1..Len(prev) :
            LET before == IF i = 1 THEN now ELSE ts[i-1]
            IN  IF prev[i].id = id THEN ts[i] >= before ELSE ts[i] = before}

Update ==
    /\ pc = "ready"
    /\ \E id \in Ids, data \in Patches, throws \in BOOLEAN :
         \E ts \in Readings(notes, id) :
           /\ notes' = updateNote(notes, id, data, ts)
           /\ now' = IF Len(notes) = 0 THEN now ELSE ts[Len(notes)]
           /\ Save(notes', throws)
           /\ lastOp' = Op("update", id, data, throws)
    /\ UNCHANGED <<pc, nextId>>
    /\ UNCHANGED screens

Delete ==
    /\ pc = "ready"
    /\ \E id \in Ids, throws \in BOOLEAN :
         /\ notes' = deleteNote(notes, id)
         /\ Save(notes', throws)
         /\ lastOp' = Op("delete", id, EmptyPatch, throws)
    /\ UNCHANGED <<pc, now, nextId>>
    /\ UNCHANGED screens

Next == Mount \/ Create \/ Update \/ Delete

Spec == Init /\ [][Next]_vars


\* ------------------------------------------------------------------ NoteList
\* Text on this screen is a sequence of one-character strings.  The calendar
\* is scaled: a second has MsPerSec milliseconds, a day SecPerDay seconds.
MsPerSec      == 2   \* milliseconds in a second   (1000 in the browser)
SecPerDay     == 2   \* seconds in a local day     (86400 in the browser)
MaxDays       == 2   \* calendar days explored
MaxContentLen == 5   \* longest note content enumerated
MaxQueryLen   == 2   \* longest search text enumerated

DayMs == MsPerSec * SecPerDay

\* new Date(y, m, d, h, mi, s, ms).getTime() for calendar day `day`
DateOf(day, sec, ms) == day * DayMs + sec * MsPerSec + ms

\* getFullYear(), getMonth(), getDate(): the local calendar day of a Date
CalendarDay(t) == t \div DayMs

FilterTimes == 0..(MaxDays * DayMs - 1)

\* String.prototype.toLowerCase on the characters in use
LowerCase(c) ==
    CASE c = "B" -> "b"
      [] c = "M" -> "m"
      [] OTHER   -> c

toLowerCase(str) == [i \in 1..Len(str) |-> LowerCase(str[i])]

\* String.prototype.includes
includes(str, sub) ==
    \E off \in 0..(Len(str) - Len(sub)) :
        \A k \in 1..Len(sub) : str[off + k] = sub[k]

\* where the match of /<[^>]+>/ that starts at str[i] = "<" ends (0: no
\* match there): at the first ">" behind i, with a character in between
TagEnd(str, i) ==
    LET closers == {j \in (i + 1)..Len(str) : str[j] = ">"}
    IN  IF closers = {} THEN 0
        ELSE LET j == CHOOSE c \in closers : \A d \in closers : c <= d
             IN  IF j >= i + 2 THEN j ELSE 0

\* htmlString.replace(/<[^>]+>/gi, "") scanning on from position i
RECURSIVE StripFrom(_, _)
StripFrom(str, i) ==
    IF i > Len(str) THEN <<>>
    ELSE IF str[i] = "<" /\ TagEnd(str, i) # 0
         THEN StripFrom(str, TagEnd(str, i) + 1)
         ELSE <<str[i]>> \o StripFrom(str, i + 1)

\* slip: the replace dropped, the markup is searched as well
stripHtml_raw(htmlString) == htmlString

stripHtml(htmlString) == StripFrom(htmlString, 1)

\* slip: endOfDay built with 0 milliseconds
filterNotes_noMillis(list, selected, query) ==
    LET startOfDay  == DateOf(CalendarDay(selected), 0, 0)
        endOfDay    == DateOf(CalendarDay(selected), SecPerDay - 1, 0)
        lowerSearch == toLowerCase(query)
        Keep(note) ==
            LET created        == note.dateCreated
                sameDay        == created >= startOfDay /\ created <= endOfDay
                titleMatches   == includes(toLowerCase(note.title), lowerSearch)
                contentPlain   == toLowerCase(stripHtml(note.content))
                contentMatches == includes(contentPlain, lowerSearch)
            IN  sameDay /\ (titleMatches \/ contentMatches)
    IN  SelectSeq(list, Keep)

filterNotes(list, selected, query) ==
    LET startOfDay  == DateOf(CalendarDay(selected), 0, 0)
        endOfDay    == DateOf(CalendarDay(selected), SecPerDay - 1, MsPerSec - 1)
        lowerSearch == toLowerCase(query)
        Keep(note) ==
            LET created        == note.dateCreated
                sameDay        == created >= startOfDay /\ created <= endOfDay
                titleMatches   == includes(toLowerCase(note.title), lowerSearch)
                contentPlain   == toLowerCase(stripHtml(note.content))
                contentMatches == includes(contentPlain, lowerSearch)
            IN  sameDay /\ (titleMatches \/ contentMatches)
    IN  SelectSeq(list, Keep)

\* all sequences over `chars` of length at most n
StringsUpTo(chars, n) == UNION {[1..m -> chars] : m \in 0..n}

MilkContent == <<"<", "p", ">", "B", "u", "y", " ", "M", "i", "l", "k",
                 "<", "/", "p", ">">>
MilkQuery   == <<"m", "i", "l", "k">>

\* a note as the list screen sees it
ListNote(id, title, content, created) ==
    [id |-> id, title |-> title, content |-> content, dateCreated |-> created,
     lastEdited |-> MaxDays * DayMs - 1, reminder |-> 0, tags |-> <<>>]

\* one note, any content: the text side of the filter
TextLists ==
    {<<ListNote(1, <<"a">>, c, DayMs)>> :
        c \in StringsUpTo({"<", ">", "B"}, MaxContentLen) \cup {MilkContent}}
    \cup {<<ListNote(1, t, <<"<", "B", ">">>, DayMs)>> :
            t \in StringsUpTo({"b", "B"}, 2)}

\* three notes, any creation times: the date side of the filter
DateLists ==
    {<<ListNote(1, <<"a">>, <<"<", "B", ">">>, t1),
       ListNote(2, <<"b">>, <<"<", "b", ">", "B">>, t2),
       ListNote(3, <<"B", "a">>, <<>>, t3)>> :
        t1 \in FilterTimes, t2 \in FilterTimes, t3 \in FilterTimes}

Queries == StringsUpTo({"b", "B", "<"}, MaxQueryLen) \cup {MilkQuery}

\* NoteList mounted over a loaded store: useState(new Date()),
\* useState(""), and the effect has run filterNotes once
InitList ==
    /\ pc = "ready"
    /\ notes \in TextLists \cup DateLists
    /\ storage = JSONstringify(notes)
    /\ now = MaxDays * DayMs - 1
    /\ nextId = 4
    /\ lastOp = Op("mount", 0, EmptyPatch, FALSE)
    /\ failures = 0
    /\ selectedDate = now
    /\ searchQuery = <<>>
    /\ filteredNotes = filterNotes(notes, selectedDate, searchQuery)
    /\ EditorIdle
    /\ CallerIdle

\* DateSelector picks a date; the effect runs filterNotes
handleDateSelect ==
    /\ \E date \in FilterTimes :
         /\ selectedDate' = date
         /\ filteredNotes' = filterNotes(notes, date, searchQuery)
    /\ UNCHANGED <<store, searchQuery, editorView, caller>>

\* Header reports the typed text; the effect runs filterNotes
handleSearch ==
    /\ \E query \in Queries :
         /\ searchQuery' = query
         /\ filteredNotes' = filterNotes(notes, selectedDate, query)
    /\ UNCHANGED <<store, selectedDate, editorView, caller>>

NextList == handleDateSelect \/ handleSearch

SpecList == InitList /\ [][NextList]_vars

\* ---------------------------------------------------------------- NoteEditor
NewId == 0   \* the :id parameter "new"

ListRoute       == [screen |-> "list", id |-> 0]
EditorRoute(id) == [screen |-> "editor", id |-> id]

isNewNote == route.id = NewId

Whitespace == {" ", "\t"}

\* slip: the title compared as typed
trim_none(str) == str

\* String.prototype.trim
trim(str) ==
    LET solid == {i \in 1..Len(str) : str[i] \notin Whitespace}
    IN  IF solid = {} THEN <<>>
        ELSE SubSeq(str, CHOOSE i \in solid : \A j \in solid : i <= j,
                         CHOOSE i \in solid : \A j \in solid : i >= j)

\* what the user can put into the fields
Titles    == {<<>>, <<"\t", " ">>, <<" ", "a">>}
Contents  == {<<>>, <<"e">>}
Reminders == {null, 1}

\* existing.reminder ? new Date(existing.reminder) : null
LoadedReminder(reminder) ==
    IF reminder = null \/ reminder = 0 THEN null ELSE reminder

\* notes.find(n => n.id === id)
find(list, id) ==
    list[CHOOSE i \in 1..Len(list) :
            list[i].id = id /\ \A j \in 1..(i - 1) : list[j].id # id]

\* slip: the merge object carries the creation date as well
EditorPatch_withDate(title, content, reminder, tags) ==
    [title |-> title, content |-> content, reminder |-> reminder, tags |-> tags,
     dateCreated |-> now]

\* the object handleSave passes to updateNote
EditorPatch(title, content, reminder, tags) ==
    [title |-> title, content |-> content, reminder |-> reminder, tags |-> tags]

\* useState("") etc.: the fields of a freshly mounted NoteEditor
FormDefaults ==
    /\ noteTitle' = <<>>
    /\ noteContent' = <<>>
    /\ noteReminder' = null
    /\ noteTags' = <<>>

\* the note an earlier session may have left in localStorage
StoredNote(title) ==
    [id |-> 1, title |-> title, content |-> <<"e">>, dateCreated |-> 0,
     lastEdited |-> 0, reminder |-> null, tags |-> <<"Important">>]

\* NotesProvider has mounted over that storage and "/notes" is shown
InitEditor ==
    /\ pc = "ready"
    /\ notes \in {<<>>, <<StoredNote(<<" ", "a">>)>>, <<StoredNote(<<"\t", " ">>)>>}
    /\ storage = JSONstringify(notes)
    /\ now = 0
    /\ nextId = MaxIds
    /\ lastOp = Op("mount", 0, EmptyPatch, FALSE)
    /\ failures = 0
    /\ route = ListRoute
    /\ noteTitle = <<>>
    /\ noteContent = <<>>
    /\ noteReminder = null
    /\ noteTags = <<>>
    /\ ListIdle
    /\ CallerIdle

\* navigate("/notes"): NoteEditor unmounts
ToList ==
    /\ route' = ListRoute
    /\ FormDefaults

\* "/editor/:id" is entered: first render, then the load effect
OpenEditor ==
    /\ route.screen = "list"
    /\ \E id \in {NewId} \cup Ids :
         IF id = NewId
         THEN /\ route' = EditorRoute(id)
              /\ FormDefaults
              /\ lastOp' = Op("open", id, EmptyPatch, FALSE)
         ELSE IF \E i \in 1..Len(notes) : notes[i].id = id
         THEN LET existing == find(notes, id)
              IN  /\ route' = EditorRoute(id)
                  /\ noteTitle' = existing.title
                  /\ noteContent' = existing.content
                  /\ noteReminder' = LoadedReminder(existing.reminder)
                  /\ noteTags' = existing.tags
                  /\ lastOp' = Op("open", id, EmptyPatch, FALSE)
         ELSE /\ ToList
              /\ lastOp' = Op("redirect", id, EmptyPatch, FALSE)
    /\ UNCHANGED <<pc, notes, storage, now, nextId, failures>>
    /\ UNCHANGED <<listView, caller>>

\* a step of the editor that leaves the store alone
Typed ==
    /\ lastOp' = Op("edit", route.id, EmptyPatch, FALSE)
    /\ UNCHANGED <<pc, notes, storage, now, nextId, failures>>
    /\ UNCHANGED <<route, listView, caller>>

handleTitleChange ==
    /\ route.screen = "editor"
    /\ \E value \in Titles : noteTitle' = value
    /\ UNCHANGED <<noteContent, noteReminder, noteTags>>
    /\ Typed

handleContentChange ==
    /\ route.screen = "editor"
    /\ \E htmlValue \in Contents : noteContent' = htmlValue
    /\ UNCHANGED <<noteTitle, noteReminder, noteTags>>
    /\ Typed

handleTagToggle ==
    /\ route.screen = "editor"
    /\ LET tagLabel == "Important"
       IN  noteTags' = IF \E i \in 1..Len(noteTags) : noteTags[i] = tagLabel
                       THEN SelectSeq(noteTags, LAMBDA t : t # tagLabel)
                       ELSE Append(noteTags, tagLabel)
    /\ UNCHANGED <<noteTitle, noteContent, noteReminder>>
    /\ Typed

handleReminderChange ==
    /\ route.screen = "editor"
    /\ \E dateObj \in Reminders : noteReminder' = dateObj
    /\ UNCHANGED <<noteTitle, noteContent, noteTags>>
    /\ Typed

handleSave ==
    /\ route.screen = "editor"
    /\ IF trim(noteTitle) = <<>>
       THEN /\ lastOp' = Op("alert", route.id, EmptyPatch, FALSE)
            /\ UNCHANGED <<pc, notes, storage, now, nextId, failures>>
            /\ UNCHANGED editorView
       ELSE /\ IF isNewNote
               THEN /\ Len(notes) < MaxNotes
                    /\ nextId <= MaxIds
                    /\ \E t1 \in now..MaxTime :
                         \E t2 \in t1..MaxTime, throws \in BOOLEAN :
                           /\ notes' = createNote(notes, nextId, noteTitle,
                                                  noteContent, noteReminder,
                                                  noteTags, t1, t2)
                           /\ now' = t2
                           /\ Save(notes', throws)
                           /\ lastOp' = Op("create", nextId,
                                           EditorPatch(noteTitle, noteContent,
                                                       noteReminder, noteTags),
                                           throws)
                    /\ nextId' = nextId + 1
               ELSE /\ \E throws \in BOOLEAN :
                         \E ts \in Readings(notes, route.id) :
                           LET data == EditorPatch(noteTitle, noteContent,
                                                   noteReminder, noteTags)
                           IN  /\ notes' = updateNote(notes, route.id, data, ts)
                               /\ now' = ts[Len(notes)]
                               /\ Save(notes', throws)
                               /\ lastOp' = Op("update", route.id, data, throws)
                    /\ nextId' = nextId
            /\ pc' = pc
            /\ ToList
    /\ UNCHANGED <<listView, caller>>

handleDelete ==
    /\ route.screen = "editor"
    /\ ~isNewNote
    /\ \E confirmDelete \in BOOLEAN :
         IF confirmDelete
         THEN /\ notes' = deleteNote(notes, route.id)
              /\ \E throws \in BOOLEAN :
                   /\ Save(notes', throws)
                   /\ lastOp' = Op("delete", route.id, EmptyPatch, throws)
              /\ ToList
         ELSE /\ lastOp' = Op("declined", route.id, EmptyPatch, FALSE)
              /\ UNCHANGED <<notes, storage, failures>>
              /\ UNCHANGED editorView
    /\ UNCHANGED <<pc, now, nextId>>
    /\ UNCHANGED <<listView, caller>>

handleCancel ==
    /\ route.screen = "editor"
    /\ ToList
    /\ lastOp' = Op("cancel", route.id, EmptyPatch, FALSE)
    /\ UNCHANGED <<pc, notes, storage, now, nextId, failures>>
    /\ UNCHANGED <<listView, caller>>

NextEditor ==
    \/ OpenEditor
    \/ handleTitleChange
    \/ handleContentChange
    \/ handleTagToggle
    \/ handleReminderChange
    \/ handleSave
    \/ handleDelete
    \/ handleCancel

SpecEditor == InitEditor /\ [][NextEditor]_vars

\* ------------------------------------------------- createNote and its caller
\* Here a tags value is a reference: heap[r] is the array behind reference r,
\* and a caller of createNote keeps the one it passed, callerTags.
MaxTags == 2   \* longest array the caller builds

TagLabels == {"Important", "Top Priority"}

\* slip: tags: tags, the caller's array itself goes into the note
Spread_alias(h, ref) == [heap |-> h, ref |-> ref]

\* [...tags]: a new array holding the elements of the array behind ref
Spread(h, ref) == [heap |-> Append(h, h[ref]), ref |-> Len(h) + 1]

\* the notes as JSON.stringify walks them, each tags reference followed
Deref(list, h) == [i \in 1..Len(list) |-> [list[i] EXCEPT !.tags = h[@]]]

\* NotesProvider has mounted over an empty storage; the caller holds an array
InitTags ==
    /\ pc = "ready"
    /\ notes = <<>>
    /\ storage = JSONstringify(<<>>)
    /\ now = 0
    /\ nextId = 2
    /\ lastOp = Op("mount", 0, EmptyPatch, FALSE)
    /\ failures = 0
    /\ heap \in {<<tags>> : tags \in {<<>>, <<"Important">>}}
    /\ callerTags = 1
    /\ ListIdle
    /\ EditorIdle

\* the caller calls createNote(title, content, reminder, tags) with its array
CallerCreate ==
    /\ Len(notes) < MaxNotes
    /\ nextId <= MaxIds
    /\ \E in \in NoteInputs, t1 \in now..MaxTime :
         \E t2 \in t1..MaxTime, throws \in BOOLEAN :
           LET copy == Spread(heap, callerTags)
           IN  /\ heap' = copy.heap
               /\ notes' = createNote(notes, nextId, in.title, in.content,
                                      in.reminder, copy.ref, t1, t2)
               /\ now' = t2
               /\ Save(Deref(notes', heap'), throws)
               /\ lastOp' = Op("create", nextId, EmptyPatch, throws)
    /\ nextId' = nextId + 1
    /\ pc' = pc
    /\ UNCHANGED <<callerTags, listView, editorView>>

\* afterwards the caller pushes onto its own array
CallerPush ==
    /\ Len(heap[callerTags]) < MaxTags
    /\ \E tag \in TagLabels :
         heap' = [heap EXCEPT ![callerTags] = Append(@, tag)]
    /\ lastOp' = Op("push", 0, EmptyPatch, FALSE)
    /\ UNCHANGED <<pc, notes, storage, now, nextId, failures>>
    /\ UNCHANGED <<callerTags, listView, editorView>>

\* or pops from it
CallerPop ==
    /\ Len(heap[callerTags]) > 0
    /\ heap' = [heap EXCEPT ![callerTags] = SubSeq(@, 1, Len(@) - 1)]
    /\ lastOp' = Op("pop", 0, EmptyPatch, FALSE)
    /\ UNCHANGED <<pc, notes, storage, now, nextId, failures>>
    /\ UNCHANGED <<callerTags, listView, editorView>>

NextTags == CallerCreate \/ CallerPush \/ CallerPop

SpecTags == InitTags /\ [][NextTags]_vars

\* ----------------------------------------------------------------- typing
TypeOK ==
    /\ pc \in {"unmounted", "ready"}
    /\ Len(notes) <= MaxNotes
    /\ now \in Times
    /\ nextId \in 2..(MaxIds + 1)
    /\ failures \in 0..MaxFailures

\* ----------------------------------------------------------------- claims
Mutations == {"create", "update", "delete"}

Indices(list) == 1..Len(list)

HasId(list, id) == \E i \in Indices(list) : list[i].id = id

\* C1: every note in the collection has an id different from the id of
\* every other note, after any sequence of Create, Update and Delete.
C1_UniqueIds ==
    \A i, j \in Indices(notes) : i # j => notes[i].id # notes[j].id

\* C2: every note satisfies lastEdited >= dateCreated in every reachable
\* state of the store.
C2_LastEditedNotBeforeCreated ==
    \A i \in Indices(notes) : notes[i].lastEdited >= notes[i].dateCreated

\* C3 (as stated): right after any mutation, its save included, the
\* in-memory list equals the snapshot held under the storage key.
C3_MirrorAfterMutation ==
    lastOp.op \in Mutations =>
        /\ storage.kind = "array"
        /\ loadNotesFromStorage(storage) = notes

\* C3 (amended): right after any mutation whose save did not throw, the
\* in-memory list equals the snapshot held under the storage key.
C3_MirrorAfterSuccessfulSave ==
    (lastOp.op \in Mutations /\ ~lastOp.threw) =>
        /\ storage.kind = "array"
        /\ loadNotesFromStorage(storage) = notes

\* a saved Delete that left one of the two notes created in this session
C3_Witness ==
    /\ lastOp.op = "delete"
    /\ ~lastOp.threw
    /\ Len(notes) = 1
    /\ notes[1].id > 1
    /\ nextId > MaxIds

C5_CreatePrepends ==
    [][lastOp'.op = "create" =>
          /\ Len(notes') = Len(notes) + 1
          /\ notes'[1].id = lastOp'.id
          /\ notes'[1].title = lastOp'.data.title
          /\ \A i \in Indices(notes) : notes'[i + 1] = notes[i]]_vars

\* a Create on a collection that already held a note
C5_Witness ==
    /\ lastOp.op = "create"
    /\ Len(notes) = 2
    /\ notes[1].id = lastOp.id

\* position of notes[i] among the notes of `list` whose id is not `id`
Rank(list, id, i) == Cardinality({j \in 1..i : list[j].id # id})

\* C6: after Delete(id) no note has that id, and the notes with another id
\* are all still there, unchanged and in the same order; when no note has
\* the id the collection is unchanged.
C6_DeleteRemovesOnlyId ==
    [][lastOp'.op = "delete" =>
          LET id == lastOp'.id
          IN  /\ ~HasId(notes', id)
              /\ Len(notes') = Rank(notes, id, Len(notes))
              /\ \A i \in Indices(notes) :
                   notes[i].id # id => notes'[Rank(notes, id, i)] = notes[i]
              /\ ~HasId(notes, id) => notes' = notes]_vars

\* a Delete that removed one of two notes: its save threw, so the key still
\* holds the two-note snapshot
C6_Witness ==
    /\ lastOp.op = "delete"
    /\ lastOp.threw
    /\ Len(notes) = 1
    /\ Len(loadNotesFromStorage(storage)) = 2

\* C7: Update and Delete with an id no note has leave every note and the
\* order of the collection unchanged (and the step is taken: no error).
C7_UnknownIdNoOp ==
    [][(lastOp'.op \in {"update", "delete"} /\ ~HasId(notes, lastOp'.id))
          => notes' = notes]_vars

\* an Update with the editor's fields on an id none of the two notes has
C7_Witness ==
    /\ lastOp.op = "update"
    /\ "title" \in DOMAIN lastOp.data
    /\ Len(notes) = 2
    /\ ~HasId(notes, lastOp.id)

\* C8: the store starts empty when the key is absent, holds text that is
\* not JSON or JSON that is not an array; otherwise it starts with exactly
\* the persisted array.
C8_InitialCollection ==
    [][pc = "unmounted" /\ pc' = "ready" =>
          IF storage.kind = "array"
          THEN /\ Len(notes') = Len(storage.items)
               /\ \A i \in Indices(notes') :
                    EncodeObject(notes'[i]) = storage.items[i]
          ELSE notes' = <<>>]_vars

\* started from text that is not JSON; the first save threw, so the key
\* still holds it
C8_Witness ==
    /\ lastOp.op = "mount"
    /\ lastOp.threw
    /\ storage = GarbageText
    /\ notes = <<>>

\* the mutation named by lastOp' took lists `before` to `after`
Applied(before, after, op) ==
    CASE op.op = "create" ->
           /\ Len(after) = Len(before) + 1
           /\ after[1].id = op.id
           /\ \A i \in Indices(before) : after[i + 1] = before[i]
      [] op.op = "update" ->
           /\ Len(after) = Len(before)
           /\ \A i \in Indices(before) :
                IF before[i].id = op.id
                THEN \A k \in DOMAIN op.data \ {"lastEdited"} :
                        after[i][k] = op.data[k]
                ELSE after[i] = before[i]
      [] op.op = "delete" ->
           /\ ~HasId(after, op.id)
           /\ Len(after) = Rank(before, op.id, Len(before))

\* C9: when the write fails after a mutation, the in-memory collection
\* keeps the mutation's result, the persisted snapshot stays as it was, the
\* write is attempted once, and later mutations are applied and saved as
\* usual.
C9_WriteFailureStands ==
    [][lastOp'.op \in Mutations =>
          /\ Applied(notes, notes', lastOp')
          /\ lastOp'.threw =>
                /\ storage' = storage
                /\ failures' = failures + 1
          /\ ~lastOp'.threw =>
                /\ storage' = JSONstringify(notes')
                /\ failures' = 0]_vars

\* a Create whose write threw: the note is in memory, not under the key
C9_Witness ==
    /\ lastOp.op = "create"
    /\ lastOp.threw
    /\ HasId(notes, lastOp.id)
    /\ ~HasId(loadNotesFromStorage(storage), lastOp.id)

\* C10: the note Create produces has dateCreated = lastEdited and the
\* title, content, reminder and tags passed in.
C10_CreatedNote ==
    lastOp.op = "create" =>
        /\ notes[1].dateCreated = notes[1].lastEdited
        /\ notes[1].title = lastOp.data.title
        /\ notes[1].content = lastOp.data.content
        /\ notes[1].reminder = lastOp.data.reminder
        /\ notes[1].tags = lastOp.data.tags

\* an Update whose partial note is {tags: []}
ClearsTags(op) == op.op = "update" /\ DOMAIN op.data = {"tags"}

\* C11 (as stated): after Update(id, {tags: []}) on the note Create just
\* produced, the note has no tags and its lastEdited is strictly greater
\* than the dateCreated it was given.
C11_StrictlyLater ==
    [][(lastOp.op = "create" /\ ClearsTags(lastOp') /\ lastOp'.id = lastOp.id)
          => /\ notes'[1].tags = <<>>
             /\ notes'[1].lastEdited > notes[1].dateCreated]_vars

\* C11 (amended): after Update(id, {tags: []}) every note with that id has
\* no tags and a lastEdited that is a clock reading not before the call;
\* on the note Create just produced that is at least its dateCreated.
C11_TagsClearedNotEarlier ==
    [][ClearsTags(lastOp') =>
          \A i \in Indices(notes) :
             notes[i].id = lastOp'.id =>
                /\ notes'[i].tags = <<>>
                /\ notes'[i].lastEdited >= now
                /\ notes'[i].lastEdited <= now'
                /\ (lastOp.op = "create" /\ lastOp.id = lastOp'.id /\ i = 1)
                      => notes'[i].lastEdited >= notes[i].dateCreated]_vars

\* tags cleared in the millisecond of the creation: lastEdited = dateCreated
C11_Witness ==
    /\ ClearsTags(lastOp)
    /\ nextId = 3
    /\ Len(notes) = 1
    /\ notes[1].id = 2
    /\ lastOp.id = 2
    /\ notes[1].tags = <<>>
    /\ notes[1].title = "Groceries"
    /\ notes[1].lastEdited = notes[1].dateCreated

\* C12: no Update changes the id or the dateCreated of a note the store
\* holds, whatever the partial note.
C12_UpdateKeepsIdAndDateCreated ==
    [][lastOp'.op = "update" =>
          /\ Len(notes') = Len(notes)
          /\ \A i \in Indices(notes) :
               /\ notes'[i].id = notes[i].id
               /\ notes'[i].dateCreated = notes[i].dateCreated]_vars

\* C16: Update on an existing note keeps the length and the positions,
\* gives the notes with that id the fields of the partial note, keeps their
\* other fields, sets their lastEdited to a clock reading of the call, and
\* leaves the other notes unchanged.
C16_UpdateMerges ==
    [][lastOp'.op = "update" =>
          /\ Len(notes') = Len(notes)
          /\ \A i \in Indices(notes) :
               IF notes[i].id = lastOp'.id
               THEN /\ DOMAIN notes'[i] = DOMAIN notes[i]
                    /\ \A k \in DOMAIN notes[i] :
                         notes'[i][k] =
                            IF k = "lastEdited" THEN notes'[i].lastEdited
                            ELSE IF k \in DOMAIN lastOp'.data
                                 THEN lastOp'.data[k]
                                 ELSE notes[i][k]
                    /\ notes'[i].lastEdited >= now
                    /\ notes'[i].lastEdited <= now'
               ELSE notes'[i] = notes[i]]_vars

\* the second of two notes had its tags cleared and kept title and place
C16_Witness ==
    /\ ClearsTags(lastOp)
    /\ Len(notes) = 2
    /\ notes[2].id = lastOp.id
    /\ notes[1].id # lastOp.id
    /\ notes[2].tags = <<>>
    /\ notes[2].title = "Groceries"
    /\ notes[1].tags # <<>>

\* C17: every Create, Update and Delete, also on an unknown id, makes one
\* attempt to store the serialization of the whole in-memory list under the
\* key before the next mutation: the key then holds the whole list, or the
\* attempt threw and is counted once.
C17_FullWriteAfterEachMutation ==
    [][lastOp'.op \in Mutations =>
          IF lastOp'.threw
          THEN failures' = failures + 1
          ELSE /\ failures' = 0
               /\ storage'.kind = "array"
               /\ Len(storage'.items) = Len(notes')
               /\ \A i \in Indices(notes') :
                    storage'.items[i] = EncodeObject(notes'[i])]_vars

\* a Delete on an id no note has, written although nothing changed
C17_Witness ==
    /\ lastOp.op = "delete"
    /\ ~lastOp.threw
    /\ Len(notes) = 2
    /\ ~HasId(notes, lastOp.id)
    /\ storage = JSONstringify(notes)

\* text under the key that loads as the empty list without being "[]"
Unusable(stored) == stored.kind \in {"empty", "garbage", "object"}

\* C19 (as stated): the first render writes the loaded list back, so text
\* that was not JSON or not an array is replaced by the serialization of
\* the empty list.
C19_StartupOverwrites ==
    [][(pc = "unmounted" /\ pc' = "ready" /\ Unusable(storage))
          => storage' = JSONstringify(<<>>)]_vars

\* C19 (amended): the first render writes the loaded list back before any
\* mutation; when that write does not throw, text that was not JSON or not
\* an array is replaced by the serialization of the empty list, and when it
\* throws the text stays under the key.
C19_StartupOverwritesUnlessThrown ==
    [][(pc = "unmounted" /\ Unusable(storage)) =>
          /\ lastOp'.op = "mount"
          /\ notes' = <<>>
          /\ storage' = IF lastOp'.threw THEN storage
                        ELSE JSONstringify(<<>>)]_vars

\* started empty on "{}"; the write-back threw, so "{}" is still there
C19_Witness ==
    /\ lastOp.op = "mount"
    /\ lastOp.threw
    /\ storage = ObjectText
    /\ notes = <<>>
    /\ failures = 1

\* ------------------------------------------------------------------ C13, C14
\* the positions of str inside a markup tag: between a "<" and the first
\* ">" behind it, at least one character apart
TagPositions(str) ==
    {p \in 1..Len(str) :
        \E a \in 1..p, b \in p..Len(str) :
            /\ str[a] = "<"
            /\ str[b] = ">"
            /\ b >= a + 2
            /\ \A k \in (a + 1)..(b - 1) : str[k] # ">"}

\* str without its markup tags
TagFree(str) ==
    LET keep == (1..Len(str)) \ TagPositions(str)
        Nth(r) == CHOOSE p \in keep : Cardinality({q \in keep : q <= p}) = r
    IN  [r \in 1..Cardinality(keep) |-> str[Nth(r)]]

\* query occurs in str, letter case disregarded
ContainsIgnoringCase(str, query) ==
    \E off \in 0..(Len(str) - Len(query)) :
        \A k \in 1..Len(query) : LowerCase(str[off + k]) = LowerCase(query[k])

TextCriterion(note, query) ==
    \/ ContainsIgnoringCase(note.title, query)
    \/ ContainsIgnoringCase(TagFree(note.content), query)

DateCriterion(note, referenceDate) ==
    CalendarDay(note.dateCreated) = CalendarDay(referenceDate)

\* the positions of `notes` the filter has to keep
Kept ==
    {i \in Indices(notes) :
        /\ DateCriterion(notes[i], selectedDate)
        /\ TextCriterion(notes[i], searchQuery)}

FilterResultExact ==
    /\ Len(filteredNotes) = Cardinality(Kept)
    /\ \A i \in Kept :
          filteredNotes[Cardinality({j \in Kept : j <= i})] = notes[i]

\* C13: the filter returns exactly the notes created on the reference date's
\* calendar day (first to last millisecond, lastEdited and reminder playing
\* no part) that satisfy the text criterion, in the collection's order, and
\* the collection itself is left as it was.
C13_FilterExact ==
    /\ []FilterResultExact
    /\ [][notes' = notes]_vars

C13_Witness ==
    /\ Len(notes) = 3
    /\ notes[1].dateCreated = DateOf(1, 0, 0)
    /\ notes[2].dateCreated = DateOf(0, SecPerDay - 1, MsPerSec - 1)
    /\ notes[3].dateCreated = DateOf(1, SecPerDay - 1, MsPerSec - 1)
    /\ selectedDate = DateOf(1, 0, 1)
    /\ searchQuery = <<"b">>
    /\ filteredNotes = <<notes[3]>>

InResult(note) == \E j \in Indices(filteredNotes) : filteredNotes[j] = note

\* C14: a note of the reference day is in the result if and only if the
\* search text, letter case disregarded, occurs in its title or in its content
\* without the markup tags; the empty search text matches every note, and
\* "milk" matches the content "<p>Buy Milk</p>".
C14_TextCriterion ==
    \A i \in Indices(notes) :
        DateCriterion(notes[i], selectedDate) =>
            /\ InResult(notes[i]) <=> TextCriterion(notes[i], searchQuery)
            /\ searchQuery = <<>> => InResult(notes[i])
            /\ (searchQuery = MilkQuery /\ notes[i].content = MilkContent)
                  => InResult(notes[i])

C14_Witness ==
    /\ searchQuery = MilkQuery
    /\ Len(notes) = 1
    /\ notes[1].content = MilkContent
    /\ notes[1].title = <<"a">>
    /\ filteredNotes = notes

\* ------------------------------------------------------------------ C18, C20
\* a title without a single character that is not white space
IsBlank(title) == \A i \in 1..Len(title) : title[i] \in Whitespace

\* C18: a save from the editor while the title is empty or all white space
\* only shows the message: no Create or Update reaches the store, and the
\* collection, the persisted text and the editor stay as they are, for a new
\* note and for an existing one alike.  (The store side, createNote and
\* updateNote taking any title, is the title " " of NoteInputs under Spec.)
C18_BlankTitleRejected ==
    [][(route.screen = "editor" /\ IsBlank(noteTitle)) =>
          /\ lastOp'.op \notin {"create", "update"}
          /\ lastOp'.op = "alert" =>
                /\ notes' = notes
                /\ storage' = storage
                /\ failures' = failures
                /\ nextId' = nextId
                /\ route' = route
                /\ noteTitle' = noteTitle]_vars

C18_Witness ==
    /\ lastOp.op = "alert"
    /\ lastOp.id = 1
    /\ route = EditorRoute(1)
    /\ noteTitle = <<"\t", " ">>
    /\ Len(notes) = 2
    /\ notes[2].id = 1
    /\ notes[2].title = <<" ", "a">>
    /\ storage = JSONstringify(notes)

EditorFields == {"title", "content", "reminder", "tags"}

UniqueIds ==
    \A i, j \in Indices(notes) : notes[i].id = notes[j].id => i = j

\* C20: with the store driven through the editor only, the ids stay unique;
\* every Update carries exactly title, content, reminder and tags; a note of
\* the collection after a step is the note just created or has the id and
\* dateCreated of a note before the step; and opening the editor on an id the
\* collection does not hold leads back to the list with the store untouched.
C20_EditorKeepsIdentity ==
    /\ []UniqueIds
    /\ [][/\ lastOp'.op = "update" =>
                /\ DOMAIN lastOp'.data = EditorFields
                /\ Len(notes') = Len(notes)
                /\ \A i \in Indices(notes) :
                      /\ notes'[i].id = notes[i].id
                      /\ notes'[i].dateCreated = notes[i].dateCreated
          /\ \A j \in Indices(notes') :
                \/ lastOp'.op = "create" /\ j = 1 /\ notes'[j].id = nextId
                \/ \E i \in Indices(notes) :
                      /\ notes[i].id = notes'[j].id
                      /\ notes[i].dateCreated = notes'[j].dateCreated
          /\ (route.screen = "list" /\ route'.screen = "editor")
                => (route'.id = NewId \/ HasId(notes, route'.id))
          /\ lastOp'.op = "redirect" =>
                /\ ~HasId(notes, lastOp'.id)
                /\ route' = ListRoute
                /\ notes' = notes
                /\ storage' = storage]_vars

C20_Witness ==
    /\ lastOp.op = "update"
    /\ lastOp.id = 1
    /\ Len(notes) = 2
    /\ notes[1].id = MaxIds
    /\ notes[2].id = 1
    /\ notes[2].dateCreated = 0
    /\ notes[2].lastEdited = 1
    /\ notes[2].title = <<" ", "a">>
    /\ notes[2].tags = <<>>
    /\ notes[1].dateCreated = 1
    /\ route = ListRoute

\* ----------------------------------------------------------------------- C15
\* the tags of the stored notes, by position
StoredTags(list, h) == [i \in 1..Len(list) |-> h[list[i].tags]]

\* C15: Create stores a copy of the caller's tags: the new note holds the
\* elements the caller's array had at the call, in an array of its own, and
\* whatever the caller does to its array afterwards changes the tags of no
\* stored note.
C15_TagsCopied ==
    [][/\ lastOp'.op = "create" =>
             /\ heap'[notes'[1].tags] = heap[callerTags]
             /\ notes'[1].tags # callerTags
       /\ lastOp'.op \in {"push", "pop"} =>
             /\ heap'[callerTags] # heap[callerTags]
             /\ notes' = notes
             /\ StoredTags(notes', heap') = StoredTags(notes, heap)]_vars

C15_Witness ==
    /\ lastOp.op = "push"
    /\ Len(notes) = 2
    /\ StoredTags(notes, heap) = << <<"Important">>, <<>> >>
    /\ heap[callerTags] = <<"Important", "Top Priority">>

====
